---- MODULE Spec2Model ----
(***************************************************************************)
(* Model of the matching core of Prediction-Exchange:                      *)
(*   src/app/matching/orderbook.py  (OrderBook)                            *)
(*   src/app/matching/engine.py     (MatchingEngine)                       *)
(*                                                                         *)
(* Order objects live on a heap (orders), indexed by order id; the book's  *)
(* lists and its id index hold references to them, so a decrement of       *)
(* remaining is seen through every reference, as in Python.  Decimal       *)
(* prices and quantities are exact, so they are modelled as integers       *)
(* (price ticks, quantity units).  An absent price (None) is the empty     *)
(* sequence, a present price p is <<p>>.  user_id is carried by Order but  *)
(* read by no code of the core and is left out.                            *)
(*                                                                         *)
(* add_order is modelled at the granularity of its matching loop: one      *)
(* step enters the call, one step per loop iteration, one step leaves the  *)
(* loop, rests the residual and returns.  pc is the position inside the    *)
(* call; under Spec no other call starts while pc # "idle".                *)
(*                                                                         *)
(* The engine takes no lock.  SpecThreads lets a second thread run a whole *)
(* call on the same market between two steps of a submit_order; SpecLazy   *)
(* runs submit_order in the steps of get_or_create_book for two threads,   *)
(* with the OrderBook objects kept apart from the dict that refers to them.*)
(***************************************************************************)
EXTENDS Integers, Sequences, FiniteSets, TLC

\* ---------------------------------------------------------------- bounds
MaxOrders == 3
MaxPrice == 2
MaxQty == 2
MaxClock == 1
MaxThreads == 2
MaxNamed == 4

Markets == {"m1", "m2"}
OrderIds == 1..MaxOrders
Prices == 1..MaxPrice
Quantities == 1..MaxQty

\* ------------------------------------------------------- enums and values
BUY == "BUY"
SELL == "SELL"
Side == {BUY, SELL}

LIMIT == "LIMIT"
MARKET == "MARKET"
OrderType == {LIMIT, MARKET}

None == <<>>
Some(p) == <<p>>
IsNone(x) == x = None
Val(x) == x[1]

OrderNotFound == "OrderNotFound"

Threads == 1..MaxThreads

\* a thread inside submit_order: where it is, the order it submits and the
\* OrderBook get_or_create_book returned to it (0: none yet)
Thread(at, order, ref) == [at |-> at, order |-> order, ref |-> ref]

VARIABLES orders, books, pc, incoming, i, trades, outcome, clock

\* two callers on one engine: what the engine held when the stepped call was
\* entered, and the call another thread has run to its end since then
VARIABLES snap, other

\* callers racing through get_or_create_book: every OrderBook constructed,
\* the dict self._books as references to them, and each thread's position
VARIABLES book_objs, registry, threads

\* every trade a call has returned or is about to return, in emission order
VARIABLES log

\* the order_id strings the caller gave the orders, where the model follows
\* them (SpecIds); elsewhere an order is known by its place in orders
VARIABLES names

seqVars == <<orders, books, pc, incoming, i, trades, outcome, clock>>
raceVars == <<snap, other>>
lazyVars == <<book_objs, registry, threads>>

vars == <<orders, books, pc, incoming, i, trades, outcome, clock,
          snap, other, book_objs, registry, threads, log, names>>

\* ------------------------------------------------------------ data model
Order(id, market_id, side, type, price, quantity, created_at) ==
    [id |-> id, market_id |-> market_id, side |-> side, type |-> type,
     price |-> price, quantity |-> quantity, remaining |-> quantity,
     created_at |-> created_at]

Trade(seq, market_id, buy_order_id, sell_order_id, price, quantity) ==
    [id |-> <<buy_order_id, sell_order_id, seq>>, market_id |-> market_id,
     buy_order_id |-> buy_order_id, sell_order_id |-> sell_order_id,
     price |-> price, quantity |-> quantity]

OrderBook(market_id) ==
    [market_id |-> market_id, buys |-> <<>>, sells |-> <<>>, orders_by_id |-> {}]

\* ------------------------------------------------------ python primitives
Min(a, b) == IF a <= b THEN a ELSE b

\* mutant: the taker's price is preferred over the maker's
PyOr_TakerFirst(x, y) == IF IsNone(y) \/ Val(y) = 0 THEN x ELSE y

\* x or y, for x an optional Decimal: None and Decimal("0") are falsy
PyOr(x, y) == IF IsNone(x) \/ Val(x) = 0 THEN y ELSE x

\* (o.price or Decimal("0"))
PriceOrZero(o) == IF IsNone(o.price) THEN 0 ELSE Val(o.price)

\* del s[k] for a 1-based position k
DelAt(s, k) == SubSeq(s, 1, k - 1) \o SubSeq(s, k + 1, Len(s))

Range(s) == {s[k] : k \in 1..Len(s)}

\* the reading of the clock at the next construction of an Order: it never
\* runs backwards and two orders may read the same instant
Readings(t) == {t} \cup {u \in {t + 1} : u <= MaxClock}

\* -------------------------------------------------------- _add_to_book
\* mutant: the BUY key is not negated, bids sort by ascending price
SortKey_Ascending(o, side) == <<PriceOrZero(o), o.created_at>>

\* mutant: at equal price the newest order comes first
SortKey_NewestFirst(o, side) ==
    IF side = BUY THEN <<0 - PriceOrZero(o), 0 - o.created_at>>
                  ELSE <<PriceOrZero(o), 0 - o.created_at>>

\* the sort key of _add_to_book, as a pair compared lexicographically
SortKey(o, side) ==
    IF side = BUY THEN <<0 - PriceOrZero(o), o.created_at>>
                  ELSE <<PriceOrZero(o), o.created_at>>

KeyLess(a, b) == a[1] < b[1] \/ (a[1] = b[1] /\ a[2] < b[2])

\* list.sort(key=...) is stable: x goes before the first element whose key
\* is strictly greater than its own
RECURSIVE InsertStable(_, _, _, _)
InsertStable(sorted, x, ords, side) ==
    IF sorted = <<>> THEN <<x>>
    ELSE IF KeyLess(SortKey(ords[x], side), SortKey(ords[Head(sorted)], side))
         THEN <<x>> \o sorted
         ELSE <<Head(sorted)>> \o InsertStable(Tail(sorted), x, ords, side)

RECURSIVE SortStable(_, _, _)
SortStable(s, ords, side) ==
    IF s = <<>> THEN <<>>
    ELSE InsertStable(SortStable(SubSeq(s, 1, Len(s) - 1), ords, side),
                      s[Len(s)], ords, side)

\* mutant: every order is put on the BUY side
AddToBook_AlwaysBuys(book, id, ords) ==
    [book EXCEPT !.buys = SortStable(Append(book.buys, id), ords, BUY)]

AddToBook(book, id, ords) ==
    IF ords[id].side = BUY
    THEN [book EXCEPT !.buys = SortStable(Append(book.buys, id), ords, BUY)]
    ELSE [book EXCEPT !.sells = SortStable(Append(book.sells, id), ords, SELL)]

\* ------------------------------------------------------------------ Init
Init ==
    /\ orders = <<>>
    /\ books = [m \in {} |-> OrderBook(m)]
    /\ pc = "idle"
    /\ incoming = 0
    /\ i = 0
    /\ trades = <<>>
    /\ outcome = "none"
    /\ clock = 0
    /\ snap = None
    /\ other = None
    /\ book_objs = <<>>
    /\ registry = [m \in {} |-> 0]
    /\ threads = [t \in Threads |-> Thread("idle", 0, 0)]
    /\ log = <<>>
    /\ names = <<>>

\* --------------------------------------------------- MatchingEngine
\* mutant: creating a book rebuilds the registry with that book alone
GetOrCreateBook_Fresh(bks, market_id) ==
    IF market_id \notin DOMAIN bks
    THEN [m \in {market_id} |-> OrderBook(market_id)]
    ELSE bks

GetOrCreateBook(bks, market_id) ==
    IF market_id \notin DOMAIN bks
    THEN [m \in DOMAIN bks \cup {market_id} |->
            IF m = market_id THEN OrderBook(market_id) ELSE bks[m]]
    ELSE bks

\* submit_order up to the entry of the matching loop of add_order
SubmitOrder(market_id, side, type, price, quantity, now) ==
    /\ pc = "idle"
    /\ Len(orders) < MaxOrders
    /\ LET id == Len(orders) + 1 IN
        /\ orders' = Append(orders, Order(id, market_id, side, type, price, quantity, now))
        /\ books' = GetOrCreateBook(books, market_id)
        /\ incoming' = id
        /\ i' = 0
        /\ trades' = <<>>
        /\ pc' = IF side = BUY THEN "match_buy" ELSE "match_sell"
        /\ outcome' = "running"
        /\ clock' = now

\* ------------------------------------------- one iteration of matching
\* mutant: the resting order's remaining is taken without the min
TradeQty_RestingOnly(inc, resting) == resting.remaining

\* mutant: max instead of min
TradeQty_Max(inc, resting) ==
    IF inc.remaining >= resting.remaining THEN inc.remaining ELSE resting.remaining

\* mutant: one unit is traded per iteration
TradeQty_Unit(inc, resting) == 1

\* min(incoming.remaining, resting.remaining)
TradeQty(inc, resting) == Min(inc.remaining, resting.remaining)

\* mutant: the quantity is added instead of subtracted
Fill_Adds(o, trade_qty) == [o EXCEPT !.remaining = @ + trade_qty]

\* mutant: the decrement is lost
Fill_Forgotten(o, trade_qty) == o

\* o.remaining -= trade_qty
Fill(o, trade_qty) == [o EXCEPT !.remaining = @ - trade_qty]

\* mutant: < instead of <=
FullyFilled_Strict(o) == o.remaining < 0

\* resting.remaining <= 0 after the decrement
FullyFilled(o) == o.remaining <= 0

\* mutant: >= instead of >, an ask at the incoming price is not matched
BuyCrosses_Strict(inc, best_ask) ==
    ~ (/\ inc.type = LIMIT
       /\ ~ IsNone(best_ask.price)
       /\ (IsNone(inc.price) \/ Val(best_ask.price) >= Val(inc.price)))

\* the price check of _match_buy does not break out of the loop
BuyCrosses(inc, best_ask) ==
    ~ (/\ inc.type = LIMIT
       /\ ~ IsNone(best_ask.price)
       /\ (IsNone(inc.price) \/ Val(best_ask.price) > Val(inc.price)))

\* mutant: the price check is made for MARKET orders too
SellCrosses_NoMarketBypass(inc, best_bid) ==
    ~ (/\ ~ IsNone(best_bid.price)
       /\ (IsNone(inc.price) \/ Val(best_bid.price) < Val(inc.price)))

\* the price check of _match_sell does not break out of the loop
SellCrosses(inc, best_bid) ==
    ~ (/\ inc.type = LIMIT
       /\ ~ IsNone(best_bid.price)
       /\ (IsNone(inc.price) \/ Val(best_bid.price) < Val(inc.price)))

\* ------------------------------------------------------ _match_buy
MatchBuyContinues ==
    LET inc == orders[incoming]
        book == books[inc.market_id]
    IN /\ inc.remaining > 0
       /\ i < Len(book.sells)
       /\ BuyCrosses(inc, orders[book.sells[i + 1]])

MatchBuyStep ==
    /\ pc = "match_buy"
    /\ MatchBuyContinues
    /\ LET inc == orders[incoming]
           m == inc.market_id
           book == books[m]
           ask_id == book.sells[i + 1]
           best_ask == orders[ask_id]
           trade_qty == TradeQty(inc, best_ask)
           trade_price == PyOr(best_ask.price, inc.price)
       IN /\ trades' = Append(trades,
                Trade(Len(trades) + 1, m, incoming, ask_id, trade_price, trade_qty))
          /\ orders' = [orders EXCEPT ![incoming] = Fill(inc, trade_qty),
                                      ![ask_id] = Fill(best_ask, trade_qty)]
          /\ IF FullyFilled(Fill(best_ask, trade_qty))
             THEN /\ books' = [books EXCEPT
                        ![m].sells = DelAt(book.sells, i + 1),
                        ![m].orders_by_id = book.orders_by_id \ {ask_id}]
                  /\ i' = i
             ELSE /\ books' = books
                  /\ i' = i + 1
    /\ UNCHANGED <<pc, incoming, outcome, clock>>

\* ----------------------------------------------------- _match_sell
MatchSellContinues ==
    LET inc == orders[incoming]
        book == books[inc.market_id]
    IN /\ inc.remaining > 0
       /\ i < Len(book.buys)
       /\ SellCrosses(inc, orders[book.buys[i + 1]])

MatchSellStep ==
    /\ pc = "match_sell"
    /\ MatchSellContinues
    /\ LET inc == orders[incoming]
           m == inc.market_id
           book == books[m]
           bid_id == book.buys[i + 1]
           best_bid == orders[bid_id]
           trade_qty == TradeQty(inc, best_bid)
           trade_price == PyOr(best_bid.price, inc.price)
       IN /\ trades' = Append(trades,
                Trade(Len(trades) + 1, m, bid_id, incoming, trade_price, trade_qty))
          /\ orders' = [orders EXCEPT ![incoming] = Fill(inc, trade_qty),
                                      ![bid_id] = Fill(best_bid, trade_qty)]
          /\ IF FullyFilled(Fill(best_bid, trade_qty))
             THEN /\ books' = [books EXCEPT
                        ![m].buys = DelAt(book.buys, i + 1),
                        ![m].orders_by_id = book.orders_by_id \ {bid_id}]
                  /\ i' = i
             ELSE /\ books' = books
                  /\ i' = i + 1
    /\ UNCHANGED <<pc, incoming, outcome, clock>>

\* ---------------------------------------- add_order after the loop
\* mutant: the residual is not registered in the id index
RestOrder_NoIndex(book, id, ords) == AddToBook(book, id, ords)

\* self._add_to_book(order); self._orders_by_id[order.id] = order
RestOrder(book, id, ords) ==
    [AddToBook(book, id, ords) EXCEPT !.orders_by_id = @ \cup {id}]

\* mutant: the order is rested whatever its remaining
HasResidual_Always(o) == TRUE

\* mutant: only LIMIT orders are rested
HasResidual_LimitOnly(o) == o.remaining > 0 /\ o.type = LIMIT

\* mutant: != instead of >, a negative remaining is rested
HasResidual_NonZero(o) == o.remaining # 0

\* order.remaining > Decimal("0")
HasResidual(o) == o.remaining > 0

\* the loop is left, the residual is rested and indexed, the call returns;
\* the scan index is a local of the matching function and dies with it
LoopLeft ==
    \/ pc = "match_buy" /\ ~ MatchBuyContinues
    \/ pc = "match_sell" /\ ~ MatchSellContinues

\* add_order after the matching function has returned
RestAndReturn ==
    /\ LET inc == orders[incoming]
           m == inc.market_id
       IN IF HasResidual(inc)
          THEN /\ books' = [books EXCEPT ![m] = RestOrder(books[m], incoming, orders)]
               /\ outcome' = "resting"
          ELSE /\ books' = books
               /\ outcome' = "filled"
    /\ pc' = "idle"
    /\ i' = 0
    /\ UNCHANGED <<orders, incoming, trades, clock>>

AddOrderReturn == LoopLeft /\ RestAndReturn

\* ------------------------------------------------------ cancel_order
\* self._orders_by_id.pop(order_id, None) finds an order
BookHasOrder(book, order_id) == order_id \in book.orders_by_id

\* mutant: the order leaves the id index but stays in its list
BookCancelOrder_IndexOnly(book, order_id, ords) ==
    [book EXCEPT !.orders_by_id = @ \ {order_id}]

\* OrderBook.cancel_order when the order is found: the book afterwards
BookCancelOrder(book, order_id, ords) ==
    LET side == ords[order_id].side
        book_side == IF side = BUY THEN book.buys ELSE book.sells
        hits == {k \in 1..Len(book_side) : book_side[k] = order_id}
        first == CHOOSE k \in hits : \A j \in hits : k <= j
        removed == IF hits = {} THEN book_side ELSE DelAt(book_side, first)
    IN IF side = BUY
       THEN [book EXCEPT !.orders_by_id = @ \ {order_id}, !.buys = removed]
       ELSE [book EXCEPT !.orders_by_id = @ \ {order_id}, !.sells = removed]

\* mutant: an order the book does not hold is cancelled silently
EngineCancelOutcome_Silent(bks, market_id, order_id) ==
    IF market_id \notin DOMAIN bks THEN OrderNotFound ELSE "ok"

\* MatchingEngine.cancel_order: what it raises
EngineCancelOutcome(bks, market_id, order_id) ==
    IF market_id \notin DOMAIN bks THEN OrderNotFound
    ELSE IF ~ BookHasOrder(bks[market_id], order_id) THEN OrderNotFound
    ELSE "ok"

\* mutant: the book is looked up with get_or_create_book
EngineCancelBooks_Creates(bks, market_id, order_id, ords) ==
    IF market_id \notin DOMAIN bks THEN GetOrCreateBook(bks, market_id)
    ELSE IF ~ BookHasOrder(bks[market_id], order_id) THEN bks
    ELSE [bks EXCEPT ![market_id] = BookCancelOrder(@, order_id, ords)]

\* MatchingEngine.cancel_order: the books afterwards
EngineCancelBooks(bks, market_id, order_id, ords) ==
    IF market_id \notin DOMAIN bks THEN bks
    ELSE IF ~ BookHasOrder(bks[market_id], order_id) THEN bks
    ELSE [bks EXCEPT ![market_id] = BookCancelOrder(@, order_id, ords)]

CancelOrder(market_id, order_id) ==
    /\ pc = "idle"
    /\ outcome' = EngineCancelOutcome(books, market_id, order_id)
    /\ books' = EngineCancelBooks(books, market_id, order_id, orders)
    /\ UNCHANGED <<orders, pc, incoming, i, trades, clock>>

\* ------------------------------------------- get_best_bid, get_best_ask
\* mutant: the back of the list is returned
GetBestBid_Back(book) ==
    IF book.buys # <<>> THEN Some(book.buys[Len(book.buys)]) ELSE None

\* self.buys[0] if self.buys else None (the order, by its id)
GetBestBid(book) == IF book.buys # <<>> THEN Some(book.buys[1]) ELSE None

\* self.sells[0] if self.sells else None
GetBestAsk(book) == IF book.sells # <<>> THEN Some(book.sells[1]) ELSE None

\* ------------------------------------------------------------------ Next
Submit ==
    \E m \in Markets, side \in Side, q \in Quantities, now \in Readings(clock) :
        \/ \E p \in Prices : SubmitOrder(m, side, LIMIT, Some(p), q, now)
        \/ SubmitOrder(m, side, MARKET, None, q, now)

Cancel == \E m \in Markets, id \in OrderIds : CancelOrder(m, id)

\* one caller at a time: the calls of the engine run one after another
Next ==
    \/ Submit /\ UNCHANGED <<raceVars, lazyVars, log, names>>
    \/ MatchBuyStep /\ UNCHANGED <<raceVars, lazyVars, log, names>>
    \/ MatchSellStep /\ UNCHANGED <<raceVars, lazyVars, log, names>>
    \/ AddOrderReturn /\ UNCHANGED <<raceVars, lazyVars, log, names>>
    \/ Cancel /\ UNCHANGED <<raceVars, lazyVars, log, names>>

Spec == Init /\ [][Next]_vars

\* =================================================================
\* Properties
\* =================================================================
Submitted == 1..Len(orders)

Calling == pc # "idle"

Returned == pc = "idle" /\ incoming # 0

Sum(s) == LET RECURSIVE Acc(_)
              Acc(k) == IF k = 0 THEN 0 ELSE s[k].quantity + Acc(k - 1)
          IN Acc(Len(s))

\* the resting (maker) order of a trade of the current call
Maker(t) == IF t.buy_order_id = incoming THEN t.sell_order_id ELSE t.buy_order_id

LimitOnly(s) == \A k \in 1..Len(s) : orders[s[k]].type = LIMIT

\* C1: in every state, the LIMIT orders of bids are in price-descending
\* order, the LIMIT orders of asks in price-ascending order, and orders of
\* equal price are in ascending order of creation time.
BidsInPriority(s) ==
    \A a, b \in 1..Len(s) :
        (a < b /\ orders[s[a]].type = LIMIT /\ orders[s[b]].type = LIMIT) =>
            \/ Val(orders[s[a]].price) > Val(orders[s[b]].price)
            \/ /\ Val(orders[s[a]].price) = Val(orders[s[b]].price)
               /\ orders[s[a]].created_at <= orders[s[b]].created_at

AsksInPriority(s) ==
    \A a, b \in 1..Len(s) :
        (a < b /\ orders[s[a]].type = LIMIT /\ orders[s[b]].type = LIMIT) =>
            \/ Val(orders[s[a]].price) < Val(orders[s[b]].price)
            \/ /\ Val(orders[s[a]].price) = Val(orders[s[b]].price)
               /\ orders[s[a]].created_at <= orders[s[b]].created_at

C1_PriceTimeOrder ==
    \A m \in DOMAIN books :
        BidsInPriority(books[m].buys) /\ AsksInPriority(books[m].sells)

\* three LIMIT bids rest, the sort has moved a later order in front of an
\* earlier one, and two of them share a price
C1_Witness ==
    \E m \in DOMAIN books :
        LET s == books[m].buys IN
        /\ Len(s) = 3
        /\ LimitOnly(s)
        /\ s[1] > s[3]
        /\ \E a, b \in 1..3 : a < b /\ orders[s[a]].price = orders[s[b]].price
                                    /\ orders[s[a]].created_at < orders[s[b]].created_at

\* C2: every trade whose resting order is a LIMIT order is priced at the
\* resting order's price.
C2_MakerPrice ==
    \A k \in 1..Len(trades) :
        orders[Maker(trades[k])].type = LIMIT =>
            trades[k].price = orders[Maker(trades[k])].price

\* a trade between a LIMIT maker and a taker that is a MARKET order or a
\* LIMIT order at another price
C2_Witness ==
    \E k \in 1..Len(trades) :
        /\ orders[Maker(trades[k])].type = LIMIT
        /\ orders[incoming].price # orders[Maker(trades[k])].price

\* C3: a step that emits a trade takes min(remaining of the two orders)
\* before the step, a positive quantity, from the buy order and from the
\* sell order, and changes nothing else of any order.
C3_TradeStep ==
    [][Len(trades') = Len(trades) + 1 =>
        LET t == trades'[Len(trades')]
            b == t.buy_order_id
            s == t.sell_order_id
        IN /\ b # s
           /\ {b, s} \subseteq Submitted
           /\ t.quantity = Min(orders[b].remaining, orders[s].remaining)
           /\ t.quantity > 0
           /\ orders'[b] = [orders[b] EXCEPT !.remaining = @ - t.quantity]
           /\ orders'[s] = [orders[s] EXCEPT !.remaining = @ - t.quantity]
           /\ \A id \in Submitted \ {b, s} : orders'[id] = orders[id]
           /\ Len(orders') = Len(orders)
           /\ SubSeq(trades', 1, Len(trades)) = trades]_vars

\* a trade has left the resting order partially filled
C3_Witness ==
    /\ Calling
    /\ \E k \in 1..Len(trades) :
        LET r == orders[Maker(trades[k])] IN
        /\ r.remaining > 0
        /\ r.remaining + trades[k].quantity = r.quantity
        /\ orders[incoming].quantity < r.quantity

\* C4: when add_order has returned, the quantities of its trades sum to the
\* incoming order's quantity minus its remaining, and to no more than its
\* quantity.
C4_CallConservation ==
    Returned =>
        /\ Sum(trades) <= orders[incoming].quantity
        /\ Sum(trades) = orders[incoming].quantity - orders[incoming].remaining

\* a call that returned two trades
C4_Witness ==
    /\ Returned
    /\ Len(trades) = 2
    /\ Sum(trades) = orders[incoming].quantity

\* C5: 0 <= remaining <= quantity for every order ever submitted, in every
\* state, inside a call included.
C5_RemainingInRange ==
    \A id \in Submitted :
        0 <= orders[id].remaining /\ orders[id].remaining <= orders[id].quantity

\* inside a call: the incoming order partially filled, a resting order
\* fully filled
C5_Witness ==
    /\ Calling
    /\ 0 < orders[incoming].remaining
    /\ orders[incoming].remaining < orders[incoming].quantity
    /\ \E id \in Submitted : id # incoming /\ orders[id].remaining = 0

OppSide(book, side) == IF side = BUY THEN book.sells ELSE book.buys

OwnSide(book, side) == IF side = BUY THEN book.buys ELSE book.sells

InBook(book, id) == id \in Range(book.buys) \cup Range(book.sells)

Without(s, id) == SelectSeq(s, LAMBDA x : x # id)

\* the crossing rule of the specification for two priced orders
PricesCross(inc, resting) ==
    IF inc.side = BUY THEN Val(inc.price) >= Val(resting.price)
                      ELSE Val(inc.price) <= Val(resting.price)

\* C6: in every state, inside a call included, no order with remaining = 0
\* is in bids, asks or the id index of any book.
C6_NoFilledOrderInBook ==
    \A m \in DOMAIN books :
        \A id \in Range(books[m].buys) \cup Range(books[m].sells)
                    \cup books[m].orders_by_id :
            orders[id].remaining # 0

\* a call has returned with the incoming order and a resting order both
\* fully filled, while another order still rests in that book
C6_Witness ==
    /\ Returned
    /\ orders[incoming].remaining = 0
    /\ \E k \in 1..Len(trades) : orders[Maker(trades[k])].remaining = 0
    /\ books[orders[incoming].market_id].orders_by_id # {}

\* C7: cancel_order of an id that is in neither collection of an existing
\* book fails with OrderNotFound and changes no book and no order.
C7_CancelNotResting ==
    [][\A m \in DOMAIN books, id \in OrderIds :
        (CancelOrder(m, id) /\ ~ InBook(books[m], id)) =>
            /\ outcome' = OrderNotFound
            /\ books' = books
            /\ orders' = orders]_vars

\* every order id has been submitted, none rests any more, one of them was
\* cancelled, and the last cancel failed
C7_Witness ==
    /\ pc = "idle"
    /\ outcome = OrderNotFound
    /\ Len(orders) = MaxOrders
    /\ \A m \in DOMAIN books : books[m].orders_by_id = {}
    /\ \E id \in Submitted : orders[id].remaining > 0

\* C8: cancel_order on a market without a book fails with OrderNotFound,
\* creates no book and changes no book; on a market with a book it succeeds
\* exactly when the book's own cancel_order finds the order, and then only
\* that market's book changes, as the book's cancel_order changes it.
C8_EngineCancel ==
    [][\A m \in Markets, id \in OrderIds :
        CancelOrder(m, id) =>
            IF m \notin DOMAIN books
            THEN /\ outcome' = OrderNotFound
                 /\ DOMAIN books' = DOMAIN books
                 /\ books' = books
            ELSE /\ outcome' \in {"ok", OrderNotFound}
                 /\ (outcome' = "ok") <=> BookHasOrder(books[m], id)
                 /\ DOMAIN books' = DOMAIN books
                 /\ \A n \in DOMAIN books \ {m} : books'[n] = books[n]
                 /\ books'[m] = IF BookHasOrder(books[m], id)
                                THEN BookCancelOrder(books[m], id, orders)
                                ELSE books[m]]_vars

\* one market has no book, every order id is resting in the other market's
\* book, and the last cancel failed: it named the market without a book
C8_Witness ==
    /\ pc = "idle"
    /\ outcome = OrderNotFound
    /\ Len(orders) = MaxOrders
    /\ \E m \in Markets :
        /\ DOMAIN books = {m}
        /\ books[m].orders_by_id = OrderIds

\* C9: while a LIMIT order is matched against a side of LIMIT orders, a
\* trade happens exactly if the incoming order has remaining > 0, the
\* opposing side is not empty and its front crosses, the trade is with that
\* front order, and add_order returns only fully filled, or with an empty
\* opposing side, or with a front that does not cross.
C9_LimitCrossing ==
    [][(/\ Calling
        /\ orders[incoming].type = LIMIT
        /\ LimitOnly(OppSide(books[orders[incoming].market_id], orders[incoming].side))) =>
        LET inc == orders[incoming]
            m == inc.market_id
            opp == OppSide(books[m], inc.side)
            oppAfter == OppSide(books'[m], inc.side)
            traded == Len(trades') = Len(trades) + 1
            crosses == /\ inc.remaining > 0
                       /\ opp # <<>>
                       /\ PricesCross(inc, orders[Head(opp)])
        IN /\ traded <=> crosses
           /\ traded => {trades'[Len(trades')].buy_order_id,
                         trades'[Len(trades')].sell_order_id} = {incoming, Head(opp)}
           /\ ~ traded =>
                /\ pc' = "idle"
                /\ \/ orders'[incoming].remaining = 0
                   \/ oppAfter = <<>>
                   \/ ~ PricesCross(orders'[incoming], orders'[Head(oppAfter)])]_vars

\* a LIMIT order has traded with the front, then stopped at a front that
\* does not cross, and rests
C9_Witness ==
    /\ Returned
    /\ orders[incoming].type = LIMIT
    /\ Len(trades) >= 1
    /\ orders[incoming].remaining > 0
    /\ LET opp == OppSide(books[orders[incoming].market_id], orders[incoming].side) IN
        /\ opp # <<>>
        /\ LimitOnly(opp)
        /\ \A k \in 1..Len(trades) : orders[Maker(trades[k])].type = LIMIT

\* C10: a LIMIT order that meets an empty opposing side or a LIMIT front it
\* does not cross: entering the call changes no existing book and no
\* existing order; the call then returns at once with no trade, no order
\* and no other book changed, the opposing side unchanged, and the incoming
\* order added to its own side and to the id index with remaining =
\* quantity.
C10_NonCrossingRests ==
    [][/\ (~ Calling /\ Calling') =>
            /\ \A m \in DOMAIN books : books'[m] = books[m]
            /\ SubSeq(orders', 1, Len(orders)) = orders
            /\ trades' = <<>>
            /\ orders'[incoming'].remaining = orders'[incoming'].quantity
       /\ (/\ Calling
           /\ trades = <<>>
           /\ orders[incoming].type = LIMIT
           /\ LET inc == orders[incoming]
                  opp == OppSide(books[inc.market_id], inc.side)
              IN \/ opp = <<>>
                 \/ /\ orders[Head(opp)].type = LIMIT
                    /\ ~ PricesCross(inc, orders[Head(opp)])) =>
            LET inc == orders[incoming]
                m == inc.market_id
            IN /\ pc' = "idle"
               /\ trades' = <<>>
               /\ orders' = orders
               /\ inc.remaining = inc.quantity
               /\ \A n \in DOMAIN books \ {m} : books'[n] = books[n]
               /\ OppSide(books'[m], inc.side) = OppSide(books[m], inc.side)
               /\ Without(OwnSide(books'[m], inc.side), incoming) = OwnSide(books[m], inc.side)
               /\ Len(OwnSide(books'[m], inc.side)) = Len(OwnSide(books[m], inc.side)) + 1
               /\ books'[m].orders_by_id = books[m].orders_by_id \cup {incoming}
               /\ incoming \notin books[m].orders_by_id]_vars

\* a LIMIT order rests without a trade beside a LIMIT front it does not
\* cross
C10_Witness ==
    /\ Returned
    /\ outcome = "resting"
    /\ trades = <<>>
    /\ orders[incoming].type = LIMIT
    /\ LET inc == orders[incoming]
           opp == OppSide(books[inc.market_id], inc.side)
       IN /\ opp # <<>>
          /\ orders[Head(opp)].type = LIMIT
          /\ ~ PricesCross(inc, orders[Head(opp)])
          /\ incoming \in Range(OwnSide(books[inc.market_id], inc.side))

\* C11: while a MARKET order is matched, a trade happens exactly if it has
\* remaining > 0 and the opposing side is not empty; the trade is with the
\* front of the opposing side, at that order's price, and is appended to
\* the trades; a front left partially filled ends the matching, a front
\* fully filled is removed; so every maker but the last is fully filled and
\* no maker is matched twice.
C11_MarketSweep ==
    [][(Calling /\ orders[incoming].type = MARKET) =>
        LET inc == orders[incoming]
            m == inc.market_id
            opp == OppSide(books[m], inc.side)
            oppAfter == OppSide(books'[m], inc.side)
            traded == Len(trades') = Len(trades) + 1
            t == trades'[Len(trades')]
        IN /\ traded <=> (inc.remaining > 0 /\ opp # <<>>)
           /\ traded =>
                /\ {t.buy_order_id, t.sell_order_id} = {incoming, Head(opp)}
                /\ (inc.side = BUY) <=> (t.buy_order_id = incoming)
                /\ t.price = orders[Head(opp)].price
                /\ SubSeq(trades', 1, Len(trades)) = trades
                /\ IF orders'[Head(opp)].remaining = 0
                   THEN /\ oppAfter = Tail(opp)
                        /\ Head(opp) \notin books'[m].orders_by_id
                   ELSE /\ oppAfter = opp
                        /\ orders'[incoming].remaining = 0
                /\ \A k \in 1..Len(trades) :
                        /\ orders'[Maker(trades[k])].remaining = 0
                        /\ Maker(trades[k]) # Head(opp)
           /\ ~ traded =>
                /\ pc' = "idle"
                /\ trades' = trades
                /\ (inc.remaining = 0 \/ opp = <<>>)]_vars

\* a MARKET order has swept two price levels and left the second maker
\* partially filled
C11_Witness ==
    /\ Returned
    /\ orders[incoming].type = MARKET
    /\ Len(trades) = 2
    /\ orders[Maker(trades[1])].remaining = 0
    /\ orders[Maker(trades[2])].remaining > 0
    /\ trades[1].price # trades[2].price
    /\ orders[incoming].remaining = 0

\* C12: after every call of a history of LIMIT orders, get_best_bid is the
\* indexed BUY order of highest price, the earliest created of that price,
\* get_best_ask the indexed SELL order of lowest price, the earliest
\* created of that price, and each is empty exactly when the index holds no
\* order of its side.
RestingOn(book, side) == {id \in book.orders_by_id : orders[id].side = side}

IsTopBid(book, b) ==
    /\ b \in RestingOn(book, BUY)
    /\ \A o \in RestingOn(book, BUY) :
        \/ Val(orders[b].price) > Val(orders[o].price)
        \/ /\ Val(orders[b].price) = Val(orders[o].price)
           /\ orders[b].created_at <= orders[o].created_at

IsTopAsk(book, a) ==
    /\ a \in RestingOn(book, SELL)
    /\ \A o \in RestingOn(book, SELL) :
        \/ Val(orders[a].price) < Val(orders[o].price)
        \/ /\ Val(orders[a].price) = Val(orders[o].price)
           /\ orders[a].created_at <= orders[o].created_at

LimitHistory == \A id \in Submitted : orders[id].type = LIMIT

C12_BestOfBook ==
    (pc = "idle" /\ LimitHistory) =>
        \A m \in DOMAIN books :
            /\ IsNone(GetBestBid(books[m])) <=> RestingOn(books[m], BUY) = {}
            /\ IsNone(GetBestAsk(books[m])) <=> RestingOn(books[m], SELL) = {}
            /\ ~ IsNone(GetBestBid(books[m])) => IsTopBid(books[m], Val(GetBestBid(books[m])))
            /\ ~ IsNone(GetBestAsk(books[m])) => IsTopAsk(books[m], Val(GetBestAsk(books[m])))

\* after a history of LIMIT orders two bids rest, the best bid is not the
\* bid submitted first, and a later SELL has partially filled it
C12_Witness ==
    /\ pc = "idle"
    /\ LimitHistory
    /\ \E m \in DOMAIN books :
        /\ Len(books[m].buys) = 2
        /\ books[m].buys[1] > books[m].buys[2]
        /\ ~ IsNone(GetBestBid(books[m]))
        /\ orders[Val(GetBestBid(books[m]))].remaining
                < orders[Val(GetBestBid(books[m]))].quantity
        /\ IsNone(GetBestAsk(books[m]))

\* C15: a step of a call on one market changes no other market's book and
\* no order of another market; every trade names two orders of the call's
\* market and carries its id; entering a call changes no existing book;
\* cancel_order(A, id) changes no book but A's, and fails with
\* OrderNotFound when the id rests only in another market's book.
SameBook(n) == n \in DOMAIN books' /\ books'[n] = books[n]

C15_MarketsIndependent ==
    [][/\ Calling =>
            LET m == orders[incoming].market_id IN
            /\ \A n \in DOMAIN books \ {m} : SameBook(n)
            /\ \A id \in Submitted : orders[id].market_id # m => orders'[id] = orders[id]
            /\ \A k \in 1..Len(trades') :
                /\ trades'[k].market_id = m
                /\ orders[trades'[k].buy_order_id].market_id = m
                /\ orders[trades'[k].sell_order_id].market_id = m
       /\ (~ Calling /\ Calling') =>
            /\ \A n \in DOMAIN books : SameBook(n)
            /\ SubSeq(orders', 1, Len(orders)) = orders
       /\ \A m \in Markets, id \in OrderIds :
            CancelOrder(m, id) =>
                /\ \A n \in DOMAIN books \ {m} : SameBook(n)
                /\ orders' = orders
                /\ (/\ \E n \in DOMAIN books \ {m} : InBook(books[n], id)
                    /\ m \in DOMAIN books => ~ InBook(books[m], id)) =>
                        /\ outcome' = OrderNotFound
                        /\ books' = books]_vars

\* both markets have a book, every order id rests in the book of its own
\* market, and the last cancel failed: it named the other market
C15_Witness ==
    /\ pc = "idle"
    /\ outcome = OrderNotFound
    /\ Len(orders) = MaxOrders
    /\ DOMAIN books = Markets
    /\ \A id \in Submitted : id \in books[orders[id].market_id].orders_by_id
    /\ \A m \in Markets : books[m].orders_by_id # {}

\* C16: add_order returns the order as residual exactly if its remaining is
\* > 0 after matching; then the order is once in its own side's list, not
\* in the other list, and in the id index; otherwise it is in no list and
\* not in the index.
C16_ResidualIffResting ==
    [][(Calling /\ pc' = "idle") =>
        LET inc == orders'[incoming]
            book == books'[inc.market_id]
            own == OwnSide(book, inc.side)
        IN /\ outcome' \in {"resting", "filled"}
           /\ (outcome' = "resting") <=> (inc.remaining > 0)
           /\ outcome' = "resting" =>
                /\ Len(SelectSeq(own, LAMBDA x : x = incoming)) = 1
                /\ incoming \notin Range(OppSide(book, inc.side))
                /\ incoming \in book.orders_by_id
           /\ outcome' = "filled" =>
                /\ ~ InBook(book, incoming)
                /\ incoming \notin book.orders_by_id]_vars

\* an order has traded and its residual rests
C16_Witness ==
    /\ Returned
    /\ outcome = "resting"
    /\ Len(trades) >= 1
    /\ orders[incoming].remaining < orders[incoming].quantity
    /\ incoming \in books[orders[incoming].market_id].orders_by_id

\* C17: cancel_order of an order resting in the book succeeds, removes that
\* order and no other from its side's list and from the id index, whatever
\* its remaining, keeps the other orders of the list in their order, and
\* changes no trade, no order, not the other side and no other book.
C17_CancelResting ==
    [][\A m \in DOMAIN books, id \in OrderIds :
        (CancelOrder(m, id) /\ InBook(books[m], id)) =>
            LET side == orders[id].side IN
            /\ outcome' = "ok"
            /\ OwnSide(books'[m], side) = Without(OwnSide(books[m], side), id)
            /\ Len(OwnSide(books'[m], side)) = Len(OwnSide(books[m], side)) - 1
            /\ OppSide(books'[m], side) = OppSide(books[m], side)
            /\ books'[m].orders_by_id = books[m].orders_by_id \ {id}
            /\ id \in books[m].orders_by_id
            /\ \A n \in DOMAIN books \ {m} : SameBook(n)
            /\ orders' = orders
            /\ trades' = trades]_vars

\* a partially filled order has been cancelled while another order rests
\* on, and the last cancel succeeded
C17_Witness ==
    /\ pc = "idle"
    /\ outcome = "ok"
    /\ \E id \in Submitted :
        /\ 0 < orders[id].remaining
        /\ orders[id].remaining < orders[id].quantity
        /\ ~ InBook(books[orders[id].market_id], id)
        /\ OwnSide(books[orders[id].market_id], orders[id].side) # <<>>

\* C18: in every state the id index of a book holds exactly the ids of its
\* two lists, every order of a list is there once and in the list of its
\* side only, belongs to that market, and has remaining > 0.
C18_IndexMatchesLists ==
    \A m \in DOMAIN books :
        LET book == books[m] IN
        /\ book.orders_by_id = Range(book.buys) \cup Range(book.sells)
        /\ Cardinality(Range(book.buys)) = Len(book.buys)
        /\ Cardinality(Range(book.sells)) = Len(book.sells)
        /\ Range(book.buys) \cap Range(book.sells) = {}
        /\ \A id \in Range(book.buys) : orders[id].side = BUY
        /\ \A id \in Range(book.sells) : orders[id].side = SELL
        /\ \A id \in book.orders_by_id :
            orders[id].remaining > 0 /\ orders[id].market_id = m

\* a book holds orders on both sides after a third order has left it
C18_Witness ==
    /\ pc = "idle"
    /\ \E m \in DOMAIN books :
        /\ books[m].buys # <<>>
        /\ books[m].sells # <<>>
        /\ \E id \in Submitted : orders[id].market_id = m /\ ~ InBook(books[m], id)

\* C19: no step raises an order's remaining; an order that has left the
\* book (it is in no list and no index, and is not the order being added)
\* stays out of every list and index, is named by no later trade, and is
\* never changed again.
GoneIn(id, bks, p, inc) ==
    /\ ~ (p # "idle" /\ inc = id)
    /\ \A m \in DOMAIN bks : ~ InBook(bks[m], id) /\ id \notin bks[m].orders_by_id

C19_Lifecycle ==
    [][\A id \in Submitted :
        /\ orders'[id].remaining <= orders[id].remaining
        /\ GoneIn(id, books, pc, incoming) =>
            /\ GoneIn(id, books', pc', incoming')
            /\ orders'[id] = orders[id]
            /\ Len(trades') = Len(trades) + 1 =>
                id \notin {trades'[Len(trades')].buy_order_id,
                           trades'[Len(trades')].sell_order_id}]_vars

\* an order was cancelled with remaining > 0; a later LIMIT order of the
\* other side, whose price crosses it, has traded with another order and
\* rests with a remainder
C19_Witness ==
    /\ Returned
    /\ orders[incoming].type = LIMIT
    /\ orders[incoming].remaining > 0
    /\ Len(trades) >= 1
    /\ \E id \in Submitted :
        /\ id < incoming
        /\ GoneIn(id, books, pc, incoming)
        /\ orders[id].remaining > 0
        /\ orders[id].type = LIMIT
        /\ orders[id].market_id = orders[incoming].market_id
        /\ orders[id].side # orders[incoming].side
        /\ PricesCross(orders[incoming], orders[id])

\* C20: when the scan of a LIMIT order stops at an opposing order that
\* does not cross, no order behind it in the opposing list crosses either
\* (by the crossing test the loop applies).
LoopCrosses(inc, resting) ==
    IF inc.side = BUY THEN BuyCrosses(inc, resting) ELSE SellCrosses(inc, resting)

ScanStoppedAt(k) ==
    /\ Calling
    /\ orders[incoming].type = LIMIT
    /\ orders[incoming].remaining > 0
    /\ k = i + 1
    /\ k <= Len(OppSide(books[orders[incoming].market_id], orders[incoming].side))
    /\ ~ LoopCrosses(orders[incoming],
            orders[OppSide(books[orders[incoming].market_id], orders[incoming].side)[k]])

C20_StopIsFinal ==
    \A k \in 1..MaxOrders :
        ScanStoppedAt(k) =>
            LET inc == orders[incoming]
                opp == OppSide(books[inc.market_id], inc.side)
            IN \A j \in (k + 1)..Len(opp) : ~ LoopCrosses(inc, orders[opp[j]])

\* =================================================================
\* Whole calls: a call that runs to its end with no other thread between
\* its steps
\* =================================================================
BookResult(book, ords, trs) == [book |-> book, orders |-> ords, trades |-> trs]

\* the loop of _match_buy and _match_sell from scan index k on
RECURSIVE MatchLoop(_, _, _, _, _)
MatchLoop(book, ords, id, k, trs) ==
    LET inc == ords[id]
        opp == OppSide(book, inc.side)
    IN IF ~ (inc.remaining > 0 /\ k < Len(opp)) THEN BookResult(book, ords, trs)
       ELSE IF ~ LoopCrosses(inc, ords[opp[k + 1]]) THEN BookResult(book, ords, trs)
       ELSE LET rid == opp[k + 1]
                resting == ords[rid]
                trade_qty == TradeQty(inc, resting)
                trade_price == PyOr(resting.price, inc.price)
                trade == IF inc.side = BUY
                         THEN Trade(Len(trs) + 1, inc.market_id, id, rid,
                                    trade_price, trade_qty)
                         ELSE Trade(Len(trs) + 1, inc.market_id, rid, id,
                                    trade_price, trade_qty)
                filled == [ords EXCEPT ![id] = Fill(inc, trade_qty),
                                       ![rid] = Fill(resting, trade_qty)]
                gone == FullyFilled(Fill(resting, trade_qty))
                popped == IF inc.side = BUY
                          THEN [book EXCEPT !.sells = DelAt(@, k + 1),
                                            !.orders_by_id = @ \ {rid}]
                          ELSE [book EXCEPT !.buys = DelAt(@, k + 1),
                                            !.orders_by_id = @ \ {rid}]
            IN MatchLoop(IF gone THEN popped ELSE book, filled, id,
                         IF gone THEN k ELSE k + 1, Append(trs, trade))

\* OrderBook.add_order on one OrderBook object
AddOrder(book, ords, id) ==
    LET r == MatchLoop(book, ords, id, 0, <<>>)
    IN IF HasResidual(r.orders[id])
       THEN BookResult(RestOrder(r.book, id, r.orders), r.orders, r.trades)
       ELSE r

CallResult(bks, ords, trs, raised) ==
    [books |-> bks, orders |-> ords, trades |-> trs, raised |-> raised]

\* MatchingEngine.submit_order for the order ords[id], already constructed
EngineSubmit(bks, ords, id) ==
    LET m == ords[id].market_id
        r == AddOrder(GetOrCreateBook(bks, m)[m], ords, id)
    IN CallResult([GetOrCreateBook(bks, m) EXCEPT ![m] = r.book],
                  r.orders, r.trades, "none")

\* MatchingEngine.cancel_order
EngineCancel(bks, ords, market_id, order_id) ==
    CallResult(EngineCancelBooks(bks, market_id, order_id, ords), ords, <<>>,
               EngineCancelOutcome(bks, market_id, order_id))

\* =================================================================
\* Two callers, no lock: another thread runs a whole call on the same
\* market between two steps of a submit_order
\* =================================================================
Snapshot(bks, ords) == [books |-> bks, orders |-> ords]

OtherCall(op, market_id, id, trs, raised) ==
    [op |-> op, market_id |-> market_id, id |-> id, trades |-> trs, raised |-> raised]

\* the market the two callers meet on
RaceMarket == "m1"

ThreadSubmit ==
    /\ \E side \in Side, q \in Quantities, now \in Readings(clock) :
        \/ \E p \in Prices : SubmitOrder(RaceMarket, side, LIMIT, Some(p), q, now)
        \/ SubmitOrder(RaceMarket, side, MARKET, None, q, now)
    /\ snap' = Some(Snapshot(books, orders))
    /\ other' = None
    /\ UNCHANGED <<lazyVars, log, names>>

ThreadStep ==
    /\ MatchBuyStep \/ MatchSellStep
    /\ UNCHANGED <<raceVars, lazyVars, log, names>>

\* the matching function returns its trades to add_order
ThreadLeaveLoop ==
    /\ LoopLeft
    /\ pc' = "rest"
    /\ UNCHANGED <<orders, books, incoming, i, trades, outcome, clock,
                   raceVars, lazyVars, log, names>>

ThreadReturn ==
    /\ pc = "rest"
    /\ RestAndReturn
    /\ UNCHANGED <<raceVars, lazyVars, log, names>>

ThreadCancel ==
    /\ \E id \in OrderIds : CancelOrder(RaceMarket, id)
    /\ snap' = None
    /\ other' = None
    /\ UNCHANGED <<lazyVars, log, names>>

OtherSubmitOrder(side, type, price, quantity, now) ==
    LET id == Len(orders) + 1
        m == orders[incoming].market_id
        r == EngineSubmit(books, Append(orders, Order(id, m, side, type, price,
                                                     quantity, now)), id)
    IN /\ orders' = r.orders
       /\ books' = r.books
       /\ other' = Some(OtherCall("submit", m, id, r.trades, r.raised))
       /\ clock' = now

OtherSubmit ==
    /\ pc # "idle"
    /\ IsNone(other)
    /\ Len(orders) < MaxOrders
    /\ \E side \in Side, q \in Quantities, now \in Readings(clock) :
        \/ \E p \in Prices : OtherSubmitOrder(side, LIMIT, Some(p), q, now)
        \/ OtherSubmitOrder(side, MARKET, None, q, now)
    /\ UNCHANGED <<pc, incoming, i, trades, outcome, snap, lazyVars, log, names>>

OtherCancel ==
    /\ pc # "idle"
    /\ IsNone(other)
    /\ \E id \in OrderIds :
        LET m == orders[incoming].market_id
            r == EngineCancel(books, orders, m, id)
        IN /\ books' = r.books
           /\ other' = Some(OtherCall("cancel", m, id, r.trades, r.raised))
    /\ UNCHANGED <<orders, pc, incoming, i, trades, outcome, clock, snap, lazyVars, log, names>>

NextThreads ==
    \/ ThreadSubmit
    \/ ThreadStep
    \/ ThreadLeaveLoop
    \/ ThreadReturn
    \/ ThreadCancel
    \/ OtherSubmit
    \/ OtherCancel

SpecThreads == Init /\ [][NextThreads]_vars

\* ---------------------------------------------- what two calls leave
\* a trade without its sequence number
Deal(t) == [buy_order_id |-> t.buy_order_id, sell_order_id |-> t.sell_order_id,
            price |-> t.price, quantity |-> t.quantity]

Deals(trs) == {Deal(trs[k]) : k \in 1..Len(trs)}

EndState(bks, ords, deals, raised) ==
    [books |-> bks, orders |-> ords, deals |-> deals, raised |-> raised]

\* an order as submit_order constructs it
AsSubmitted(o) == [o EXCEPT !.remaining = o.quantity]

\* the engine before the two calls, with their orders constructed
BeforeBoth ==
    LET had == Len(Val(snap).orders)
    IN EndState(Val(snap).books,
                Val(snap).orders \o
                    [k \in 1..(Len(orders) - had) |-> AsSubmitted(orders[had + k])],
                {}, "none")

\* a whole call applied to an end state
Apply(call, st) ==
    LET r == IF call.op = "submit"
             THEN EngineSubmit(st.books, st.orders, call.id)
             ELSE EngineCancel(st.books, st.orders, call.market_id, call.id)
    IN EndState(r.books, r.orders, st.deals \cup Deals(r.trades),
                IF call.op = "submit" THEN st.raised ELSE r.raised)

\* the stepped call, as a call
OwnCall == OtherCall("submit", orders[incoming].market_id, incoming, trades, "none")

\* what the two calls have left
Observed ==
    EndState(books, orders, Deals(trades) \cup Deals(Val(other).trades),
             Val(other).raised)

\* the stepped call has returned and another call ran inside it
BothReturned ==
    /\ pc = "idle"
    /\ outcome \in {"resting", "filled"}
    /\ ~ IsNone(other)

\* a submit_order no other call ran inside leaves what the whole call leaves
AloneIsWhole ==
    (pc = "idle" /\ outcome \in {"resting", "filled"} /\ IsNone(other) /\ ~ IsNone(snap)) =>
        EndState(books, orders, Deals(trades), "none") = Apply(OwnCall, BeforeBoth)

\* C13: when a submit_order and a call another thread made on the same
\* market meanwhile have both returned, the books, the orders and the trades
\* are those of one of the two sequential orders of the two calls.
C13_Linearized ==
    BothReturned =>
        Observed \in {Apply(Val(other), Apply(OwnCall, BeforeBoth)),
                      Apply(OwnCall, Apply(Val(other), BeforeBoth))}

\* =================================================================
\* Callers racing through get_or_create_book: submit_order in steps of
\* get_or_create_book, add_order as one step on the OrderBook received
\* =================================================================
CallMarket(t) == orders[threads[t].order].market_id

\* the one-caller engine and the two-caller race stand still
LazyFrame == UNCHANGED <<books, pc, incoming, i, trades, outcome, raceVars, log, names>>

\* order = Order(...): the call is entered
LazyCallOrder(t, market_id, side, type, price, quantity, now) ==
    /\ orders' = Append(orders, Order(Len(orders) + 1, market_id, side, type,
                                      price, quantity, now))
    /\ threads' = [threads EXCEPT ![t] = Thread("check", Len(orders) + 1, 0)]
    /\ clock' = now

LazyCall(t) ==
    /\ threads[t].at = "idle"
    /\ Len(orders) < MaxOrders
    /\ \E side \in Side, q \in Quantities, now \in Readings(clock) :
        \/ \E p \in Prices : LazyCallOrder(t, RaceMarket, side, LIMIT, Some(p), q, now)
        \/ LazyCallOrder(t, RaceMarket, side, MARKET, None, q, now)
    /\ UNCHANGED <<book_objs, registry>>
    /\ LazyFrame

\* if market_id not in self._books
LazyCheck(t) ==
    /\ threads[t].at = "check"
    /\ threads' = [threads EXCEPT ![t].at =
            IF CallMarket(t) \notin DOMAIN registry THEN "install" ELSE "fetch"]
    /\ UNCHANGED <<orders, clock, book_objs, registry>>
    /\ LazyFrame

\* self._books[market_id] = OrderBook(market_id=market_id)
LazyInstall(t) ==
    /\ threads[t].at = "install"
    /\ book_objs' = Append(book_objs, OrderBook(CallMarket(t)))
    /\ registry' = [m \in DOMAIN registry \cup {CallMarket(t)} |->
            IF m = CallMarket(t) THEN Len(book_objs) + 1 ELSE registry[m]]
    /\ threads' = [threads EXCEPT ![t].at = "fetch"]
    /\ UNCHANGED <<orders, clock>>
    /\ LazyFrame

\* return self._books[market_id]
LazyFetch(t) ==
    /\ threads[t].at = "fetch"
    /\ threads' = [threads EXCEPT ![t].at = "add", ![t].ref = registry[CallMarket(t)]]
    /\ UNCHANGED <<orders, clock, book_objs, registry>>
    /\ LazyFrame

\* trades, _residual = book.add_order(order); return trades
LazyAddOrder(t) ==
    /\ threads[t].at = "add"
    /\ LET r == AddOrder(book_objs[threads[t].ref], orders, threads[t].order)
       IN /\ book_objs' = [book_objs EXCEPT ![threads[t].ref] = r.book]
          /\ orders' = r.orders
    /\ threads' = [threads EXCEPT ![t].at = "idle"]
    /\ UNCHANGED <<clock, registry>>
    /\ LazyFrame

NextLazy ==
    \E t \in Threads :
        \/ LazyCall(t)
        \/ LazyCheck(t)
        \/ LazyInstall(t)
        \/ LazyFetch(t)
        \/ LazyAddOrder(t)

SpecLazy == Init /\ [][NextLazy]_vars

\* the OrderBook objects constructed for a market
BooksMade(m) == {k \in 1..Len(book_objs) : book_objs[k].market_id = m}

\* the orders whose submit_order has not returned yet
InFlight == {threads[t].order : t \in {u \in Threads : threads[u].at # "idle"}}

\* C14: at most one OrderBook is ever constructed for a market id, every
\* caller holds the book the engine maps the market to, and every order
\* whose submit_order has returned with a remainder rests in that book.
C14_OneBookPerMarket ==
    /\ \A m \in Markets : Cardinality(BooksMade(m)) <= 1
    /\ \A t \in Threads :
        threads[t].ref # 0 => threads[t].ref = registry[CallMarket(t)]
    /\ \A id \in Submitted \ InFlight :
        orders[id].remaining > 0 =>
            id \in book_objs[registry[orders[id].market_id]].orders_by_id

\* =================================================================
\* Resting MARKET orders
\* =================================================================
\* C21: every trade of a call carries a price.
C21_TradePriced ==
    \A k \in 1..Len(trades) : ~ IsNone(trades[k].price)

\* the call of the order being added returns in this step
Returns == pc # "idle" /\ pc' = "idle"

\* C22: when the add_order of a MARKET order returns with remaining > 0, the
\* opposing side is empty, and the order is in its own side's list and in the
\* id index, with no price; if its side was empty it is the best bid or ask.
C22_MarketRests ==
    [][(Returns /\ orders[incoming].type = MARKET /\ orders[incoming].remaining > 0) =>
        LET inc == orders'[incoming]
            before == books[inc.market_id]
            book == books'[inc.market_id]
        IN /\ OppSide(book, inc.side) = <<>>
           /\ incoming \in Range(OwnSide(book, inc.side))
           /\ incoming \in book.orders_by_id
           /\ IsNone(inc.price)
           /\ outcome' = "resting"
           /\ OwnSide(before, inc.side) = <<>> =>
                IF inc.side = BUY THEN GetBestBid(book) = Some(incoming)
                                  ELSE GetBestAsk(book) = Some(incoming)]_vars

\* a MARKET order that rested is the maker of a trade of the call in
\* progress, is partially filled by it and is still the best bid
C22_Witness ==
    /\ Calling
    /\ \E k \in 1..Len(trades) :
        LET mk == orders[Maker(trades[k])] IN
        /\ mk.type = MARKET
        /\ mk.side = BUY
        /\ mk.remaining > 0
        /\ GetBestBid(books[mk.market_id]) = Some(mk.id)

\* =================================================================
\* The scan of the matching loop
\* =================================================================
\* this step is one iteration of the matching loop
Iterates == Calling /\ Len(trades') = Len(trades) + 1

\* the makers of the call's trades that were filled and removed
RemovedMakers == {Maker(trades[k]) : k \in {j \in 1..Len(trades) :
                                            orders[Maker(trades[j])].remaining = 0}}

\* the opposing list of the order being added
Opposing == OppSide(books[orders[incoming].market_id], orders[incoming].side)

\* C23: every iteration of the matching loop matches the front element of
\* the opposing list at scan index 0; the index moves only when the incoming
\* order is exhausted, the loop is then left, the element before the index is
\* the maker of the last trade, and the number of iterations is at most the
\* number of opposing orders there were (those removed plus those left).
C23_FrontOnly ==
    [][Iterates =>
        /\ i = 0
        /\ Maker(trades'[Len(trades')]) = Opposing[1]
        /\ i' \in {0, 1}
        /\ i' = 1 =>
            /\ orders'[incoming].remaining = 0
            /\ LoopLeft'
            /\ Opposing'[1] = Maker(trades'[Len(trades')])
        /\ i' = 0 => Opposing' = Tail(Opposing)
        /\ Len(trades') <= Cardinality(RemovedMakers') + Len(Opposing')]_vars

\* the second iteration of a call has filled the front order in part: the
\* first removed a resting order, the index has moved and the loop is left
C23_Witness ==
    /\ Calling
    /\ Len(trades) = 2
    /\ i = 1
    /\ Cardinality(RemovedMakers) = 1
    /\ orders[Opposing[1]].remaining > 0
    /\ LoopLeft

\* =================================================================
\* Whole histories: the calls of Spec with every trade they return kept
\* =================================================================
LogSubmit == Submit /\ UNCHANGED <<raceVars, lazyVars, log, names>>

\* trades.append(Trade(...)): the trade is part of what the call returns
LogMatchStep ==
    /\ MatchBuyStep \/ MatchSellStep
    /\ log' = Append(log, trades'[Len(trades')])
    /\ UNCHANGED <<raceVars, lazyVars, names>>

LogReturn == AddOrderReturn /\ UNCHANGED <<raceVars, lazyVars, log, names>>

LogCancel == Cancel /\ UNCHANGED <<raceVars, lazyVars, log, names>>

NextLog ==
    \/ LogSubmit
    \/ LogMatchStep
    \/ LogReturn
    \/ LogCancel

SpecLog == Init /\ [][NextLog]_vars

\* the trades of a call are numbered 1, 2, ... in emission order, and no two
\* trades ever emitted have the same buy order, sell order and number
TriplesUnique ==
    /\ \A k \in 1..Len(trades) :
        trades[k].id = <<trades[k].buy_order_id, trades[k].sell_order_id, k>>
    /\ \A a, b \in 1..Len(log) : a # b => log[a].id # log[b].id

\* ------------------------------------------------- trade ids as text
\* strings are sequences of characters
Names == {<<"a">>, <<"c">>, <<"a", "-", "b">>, <<"b", "-", "c">>}

\* str(n) for a number below ten
Str(n) == <<n>>

\* f"t-{buy.id}-{sell.id}-{len(trades)+1}"
TradeIdText(buy_name, sell_name, seq) ==
    <<"t", "-">> \o buy_name \o <<"-">> \o sell_name \o <<"-">> \o Str(seq)

\* submit_order(order_id=name, ...) as one step, its trades added to the log
IdsSubmitOrder(name, side, price, quantity) ==
    LET id == Len(orders) + 1
        r == EngineSubmit(books, Append(orders, Order(id, RaceMarket, side, LIMIT,
                                                     price, quantity, clock)), id)
    IN /\ orders' = r.orders
       /\ books' = r.books
       /\ trades' = r.trades
       /\ log' = log \o r.trades
       /\ names' = Append(names, name)
       /\ incoming' = id
       /\ outcome' = IF HasResidual(r.orders[id]) THEN "resting" ELSE "filled"

IdsSubmit ==
    /\ pc = "idle"
    /\ Len(orders) < MaxNamed
    /\ \E name \in Names \ Range(names), side \in Side, p \in Prices, q \in Quantities :
        IdsSubmitOrder(name, side, Some(p), q)
    /\ UNCHANGED <<pc, i, clock, raceVars, lazyVars>>

NextIds == IdsSubmit

SpecIds == Init /\ [][NextIds]_vars

\* the id of a trade of the log, as the code writes it
LogIdText(k) ==
    TradeIdText(names[log[k].buy_order_id], names[log[k].sell_order_id], log[k].id[3])

\* C24: the orders have pairwise different ids, and no two trades ever
\* emitted have the same id.
C24_TradeIdsUnique ==
    /\ \A a, b \in 1..Len(names) : a # b => names[a] # names[b]
    /\ \A a, b \in 1..Len(log) : a # b => LogIdText(a) # LogIdText(b)

\* =================================================================
\* Time priority
\* =================================================================
\* two LIMIT orders of one side of one market at one price
SameLevel(a, b) ==
    /\ orders[a].type = LIMIT
    /\ orders[b].type = LIMIT
    /\ orders[a].market_id = orders[b].market_id
    /\ orders[a].side = orders[b].side
    /\ orders[a].price = orders[b].price

\* the resting orders of the market of the order being added
RestingNow == books[orders[incoming].market_id].orders_by_id

\* C25: the maker of every trade has no LIMIT order of its side and price
\* resting that was added before it, and a maker that is filled in part
\* leaves the list of its side as it was.
C25_TimePriority ==
    [][Iterates =>
        LET mk == Maker(trades'[Len(trades')]) IN
        /\ \A e \in RestingNow : (e < mk /\ SameLevel(e, mk)) => FALSE
        /\ orders'[mk].remaining > 0 => Opposing' = Opposing]_vars

\* the front order of a price level is filled in part by the call in
\* progress and a later order of the same level rests right behind it
C25_Witness ==
    /\ Calling
    /\ Len(trades) = 1
    /\ Len(Opposing) = 2
    /\ Opposing[1] = Maker(trades[1])
    /\ Opposing[1] < Opposing[2]
    /\ SameLevel(Opposing[1], Opposing[2])
    /\ orders[Opposing[1]].remaining > 0
    /\ orders[Opposing[1]].created_at < orders[Opposing[2]].created_at

\* =================================================================
\* Unvalidated input: quantities the caller should have rejected
\* =================================================================
LooseQuantities == (0 - MaxQty)..MaxQty

LooseSubmit ==
    /\ \E side \in Side, q \in LooseQuantities, now \in Readings(clock) :
        \/ \E p \in Prices : SubmitOrder(RaceMarket, side, LIMIT, Some(p), q, now)
        \/ SubmitOrder(RaceMarket, side, MARKET, None, q, now)
    /\ UNCHANGED <<raceVars, lazyVars, log, names>>

LooseMatchStep ==
    /\ MatchBuyStep \/ MatchSellStep
    /\ UNCHANGED <<raceVars, lazyVars, log, names>>

LooseReturn == AddOrderReturn /\ UNCHANGED <<raceVars, lazyVars, log, names>>

LooseCancel ==
    /\ \E id \in OrderIds : CancelOrder(RaceMarket, id)
    /\ UNCHANGED <<raceVars, lazyVars, log, names>>

NextLoose ==
    \/ LooseSubmit
    \/ LooseMatchStep
    \/ LooseReturn
    \/ LooseCancel

SpecLoose == Init /\ [][NextLoose]_vars

\* a call is entered in this step
Enters == pc = "idle" /\ pc' # "idle"

\* C26: a submit_order with quantity <= 0 is accepted; entering it leaves the
\* lists and the index of the market's book as they were (an empty book if
\* there was none), its matching loop makes no iteration, and the only step
\* of the call returns with no trade, no change to any book or order, and
\* nothing raised.
C26_NoValidation ==
    [][/\ (Enters /\ orders'[incoming'].quantity <= 0) =>
            LET m == orders'[incoming'].market_id IN
            /\ books'[m] = IF m \in DOMAIN books THEN books[m] ELSE OrderBook(m)
            /\ trades' = <<>>
            /\ LoopLeft'
       /\ (Calling /\ orders[incoming].quantity <= 0) =>
            /\ Returns
            /\ books' = books
            /\ orders' = orders
            /\ trades' = <<>>
            /\ outcome' = "filled"]_vars

\* a LIMIT BUY with a negative quantity has returned while an ask it would
\* cross rests in the book
C26_Witness ==
    /\ Returned
    /\ orders[incoming].quantity < 0
    /\ orders[incoming].side = BUY
    /\ orders[incoming].type = LIMIT
    /\ outcome = "filled"
    /\ \E a \in Range(books[orders[incoming].market_id].sells) :
        /\ orders[a].type = LIMIT
        /\ Val(orders[a].price) <= Val(orders[incoming].price)

\* =================================================================
\* Whole-book and whole-history invariants
\* =================================================================
\* C27: between calls, in a history of LIMIT orders, a book with bids and
\* asks has its best bid priced strictly below its best ask.
C27_NeverCrossed ==
    (pc = "idle" /\ LimitHistory) =>
        \A m \in DOMAIN books :
            (books[m].buys # <<>> /\ books[m].sells # <<>>) =>
                Val(orders[Val(GetBestBid(books[m]))].price) <
                    Val(orders[Val(GetBestAsk(books[m]))].price)

\* a LIMIT order has traded, rested with its remainder, and faces a resting
\* order of the other side
C27_Witness ==
    /\ Returned
    /\ LimitHistory
    /\ outcome = "resting"
    /\ Len(trades) >= 1
    /\ books[orders[incoming].market_id].buys # <<>>
    /\ books[orders[incoming].market_id].sells # <<>>

\* the quantity of the trades of the log that name the order
TradedQty(id) ==
    Sum(SelectSeq(log, LAMBDA t : id \in {t.buy_order_id, t.sell_order_id}))

\* the filled quantity of the orders of one side of one market
FilledQty(m, side) ==
    LET RECURSIVE Acc(_)
        Acc(k) == IF k = 0 THEN 0
                  ELSE Acc(k - 1) +
                       IF orders[k].market_id = m /\ orders[k].side = side
                       THEN orders[k].quantity - orders[k].remaining ELSE 0
    IN Acc(Len(orders))

\* C28: in every state, the filled quantity of every order is the sum of the
\* quantities of the trades ever emitted that name it, every trade names a
\* BUY order as its buy order and a different SELL order as its sell order,
\* and in each market the BUY orders and the SELL orders are filled by the
\* same total.
C28_Conservation ==
    /\ \A id \in Submitted :
        orders[id].quantity - orders[id].remaining = TradedQty(id)
    /\ \A k \in 1..Len(log) :
        /\ orders[log[k].buy_order_id].side = BUY
        /\ orders[log[k].sell_order_id].side = SELL
        /\ log[k].buy_order_id # log[k].sell_order_id
    /\ \A m \in Markets : FilledQty(m, BUY) = FilledQty(m, SELL)

\* an order has been filled by two trades of two calls and another order is
\* filled in part
C28_Witness ==
    /\ Len(log) = 2
    /\ \E id \in Submitted :
        /\ TradedQty(id) = 2
        /\ orders[id].remaining = 0
        /\ log[1].id[3] = 1
        /\ log[2].id[3] = 1
    /\ \E id \in Submitted : 0 < orders[id].remaining /\ orders[id].remaining < orders[id].quantity

====
